---- MODULE Spec2Model ----
(***************************************************************************)
(* Offer-approval reconciliation pipeline of the restaurant dashboard:     *)
(* admin_offer_approval.py (approve_offers, insert_offer_to_db) and        *)
(* utils/google_sheets.py (sync_offers_with_db), run one call at a time    *)
(* against a spreadsheet of pending rows and a PostgreSQL store reached    *)
(* through one psycopg2 connection.                                        *)
(*                                                                         *)
(* Store behaviour the code relies on (psycopg2 / PostgreSQL):             *)
(*   - a statement that fails puts the transaction in the aborted state;   *)
(*     every later statement of that transaction raises;                   *)
(*   - commit() on an aborted transaction ends it as a rollback and        *)
(*     returns normally;                                                   *)
(*   - any call on a lost connection raises and what the transaction wrote *)
(*     is discarded;                                                       *)
(*   - close() discards an open transaction.                               *)
(*                                                                         *)
(* The existence query of the reconciliation goes through get_df, whose    *)
(* answers streamlit caches for 120 seconds (utils/db.py); the passing of  *)
(* that time is the action CacheExpire.                                    *)
(*                                                                         *)
(* Specifications: Spec (every call, from any sheet of RowKinds rows),     *)
(* SpecApprove (approve_offers runs alone, same sheets), SpecSync (every   *)
(* call, from sheets of SyncKinds rows with an Offer already stored),      *)
(* SpecAdmin (list_pending_offers beside the approve runs), SpecRace (an   *)
(* approve run with a sync call of another session beside it), SpecSubmit  *)
(* (add_offer_to_sheet alone), SpecSubmitApprove (submissions into an      *)
(* empty sheet, then approved), SpecAppend (submissions beside one call    *)
(* that has read the sheet), SpecRun (_run of utils/db.py on the cached    *)
(* connection).                                                            *)
(***************************************************************************)
EXTENDS Integers, Sequences, FiniteSets, TLC

\* ------------------------------------------------------------------ bounds
MaxRows == 2        \* rows in the sheet when the behaviour starts
MaxRuns == 2        \* approve_offers runs in one behaviour
MaxSubs == 1        \* add_offer_to_sheet calls in one behaviour
MaxCalls == 2       \* _run calls in one behaviour

\* --------------------------------------------------------------- row values
\* JSON texts a sheet cell can hold.
DaysOk      == "[1,3]"
DaysBad     == "[1,"
BagOk       == "{\"price\":5,\"estimated_value\":12,\"daily_quantity\":20}"
BagNoPrice  == "{}"
BagBad      == "{bad"
\* json.dumps of a daily surprise bag, as add_offer_to_sheet writes it.
BagDumped   == "{\"price\": 5, \"estimated_value\": 12, \"daily_quantity\": 20}"

\* offer_types.en values present in the relational store.
OfferTypes == {"Percent Discount", "Surprise Bag"}

Row(rid, otype, title, status, days, sbd) ==
    [uid |-> 0, restaurant_id |-> rid, offer_type |-> otype, title |-> title,
     status |-> status, valid_days_of_week |-> days,
     valid_start_time |-> "", valid_end_time |-> "", end_date |-> "",
     surprise_bag_data |-> sbd]

\* The row contents a behaviour starts from (HEADERS columns the pipeline reads).
\* uid is not a sheet column: it names the submission a row came from, so that
\* a property can say which row an Offer was created from.
RowKinds ==
    { Row(1, "Percent Discount", "10% Off",   "pending",  DaysOk,  ""),
      Row(1, "NotARealType",     "Bad Offer", "pending",  "",      ""),
      Row(1, "Percent Discount", "Weekdays",  "pending",  DaysBad, ""),
      Row(1, "Surprise Bag",     "Bag",       "pending",  "",      BagOk),
      Row(1, "Surprise Bag",     "Bag2",      "pending",  "",      BagBad),
      [Row(1, "Percent Discount", "Plain",    "pending",  "[]",    BagNoPrice)
           EXCEPT !.valid_start_time = "09:00", !.end_date = "2025-12-31"],
      Row(2, "Percent Discount", "10% Off",   "approved", DaysOk,  "") }

\* ------------------------------------------------------------ Python values
None    == [some |-> FALSE]
Some(v) == [some |-> TRUE, v |-> v]

\* json.loads on the cell texts above: ok = FALSE is json.JSONDecodeError.
JsonLoadsDays(s) ==
    CASE s = "[1,3]" -> [ok |-> TRUE,  val |-> <<1, 3>>]
      [] s = "[1, 3]" -> [ok |-> TRUE, val |-> <<1, 3>>]
      [] s = "[]"    -> [ok |-> TRUE,  val |-> <<>>]
      [] OTHER       -> [ok |-> FALSE, val |-> <<>>]

JsonLoadsBag(s) ==
    CASE s \in {BagOk, BagDumped}
                        -> [ok |-> TRUE,
                            val |-> [price |-> 5, estimated_value |-> 12,
                                     daily_quantity |-> 20]]
      [] s = BagNoPrice -> [ok |-> TRUE,  val |-> [k \in {} |-> 0]]
      [] OTHER          -> [ok |-> FALSE, val |-> [k \in {} |-> 0]]

\* Mutant: a missing key reads as 0.
DictGetOrZero(d, key) == IF key \in DOMAIN d THEN Some(d[key]) ELSE Some(0)

\* dict.get(key): None when the key is absent.
DictGet(d, key) == IF key \in DOMAIN d THEN Some(d[key]) ELSE None

\* Mutant: the cell text is passed on as it is.
OrNoneKeepsEmpty(x) == Some(x)

\* x if x else None, for a text cell.
OrNone(x) == IF x # "" THEN Some(x) ELSE None

\* ------------------------------------------------------- relational store
\* What one cursor.execute does to the connection: fault is what the store
\* answers to this statement ("ok", "err" a statement error, "lost" the
\* connection drops).
Exec(c, t, fault) ==
    IF c # "open"           THEN [raised |-> TRUE,  conn |-> c,      tx |-> t]
    ELSE IF t = "inerror"   THEN [raised |-> TRUE,  conn |-> c,      tx |-> t]
    ELSE IF fault = "err"   THEN [raised |-> TRUE,  conn |-> c,      tx |-> "inerror"]
    ELSE IF fault = "lost"  THEN [raised |-> TRUE,  conn |-> "lost", tx |-> t]
    ELSE                         [raised |-> FALSE, conn |-> c,      tx |-> "intrans"]

Faults == {"ok", "err", "lost"}

\* One entry of the run's trace of store calls.
Ev(op, ok, src) == [op |-> op, ok |-> ok, src |-> src]

\* Mutant: every name is taken for a known type.
GetOfferTypeIdAny(name) == Some(name)

\* get_offer_type_id: the id of the OfferType whose en is the name, or None.
\* (The id of a type is modelled by its name.)
GetOfferTypeId(name) == IF name \in OfferTypes THEN Some(name) ELSE None

\* The parameter tuple of the Offer INSERT for row r; id stands for the value
\* RETURNING id gives, made of the run number and the row.
OfferParams(r, runNo) ==
    [id |-> <<runNo, r.uid>>, run |-> runNo, src |-> r.uid,
     restaurant_id |-> r.restaurant_id, title |-> r.title,
     offer_type |-> r.offer_type,
     valid_days_of_week |->
         IF r.valid_days_of_week # ""
         THEN Some(JsonLoadsDays(r.valid_days_of_week).val) ELSE None,
     valid_start_time |-> OrNone(r.valid_start_time),
     valid_end_time |-> OrNone(r.valid_end_time),
     end_date |-> OrNone(r.end_date)]

\* The parameter tuple of the SurpriseBag INSERT.
BagParams(r, runNo, d) ==
    [offer_id |-> <<runNo, r.uid>>, run |-> runNo, src |-> r.uid,
     price |-> d["price"], estimated_value |-> d["estimated_value"],
     daily_quantity |-> DictGet(d, "daily_quantity"),
     current_daily_quantity |-> DictGet(d, "daily_quantity"),
     total_quantity |-> DictGet(d, "total_quantity")]

\* The result of one insert_offer_to_db call: ret is "id" (an offer id was
\* returned), "none" (None was returned) or "raise" (an exception left the
\* function); offers / bags are the rows it inserted in the transaction.
InsResult(ret, e, offs, bgs, evs) ==
    [ret |-> ret, conn |-> e.conn, tx |-> e.tx,
     offers |-> offs, bags |-> bgs, evs |-> evs]

\* insert_offer_to_db(cursor, offer_data) on a connection in state (c, t);
\* f = <<answer to the SELECT, to the Offer INSERT, to the SurpriseBag INSERT>>.
InsertOfferToDb(r, runNo, c, t, f) ==
    LET u    == r.uid
        e1   == Exec(c, t, f[1])
        e2   == Exec(e1.conn, e1.tx, f[2])
        e3   == Exec(e2.conn, e2.tx, f[3])
        sel  == Ev("select", ~e1.raised, u)
        ins  == Ev("insert_offer", ~e2.raised, u)
        sb   == Ev("insert_bag", ~e3.raised, u)
        o    == OfferParams(r, runNo)
        days == r.valid_days_of_week
        sbd  == r.surprise_bag_data
        pb   == JsonLoadsBag(sbd)
    IN  IF e1.raised
          THEN InsResult("raise", e1, {}, {}, <<sel>>)
        ELSE IF GetOfferTypeId(r.offer_type) = None
          THEN InsResult("none", e1, {}, {}, <<sel>>)
        ELSE IF days # "" /\ ~JsonLoadsDays(days).ok
          THEN InsResult("raise", e1, {}, {}, <<sel>>)
        ELSE IF e2.raised
          THEN InsResult("raise", e2, {}, {}, <<sel, ins>>)
        ELSE IF sbd = ""
          THEN InsResult("id", e2, {o}, {}, <<sel, ins>>)
        ELSE IF ~pb.ok
          THEN InsResult("raise", e2, {o}, {}, <<sel, ins>>)
        ELSE IF ~({"price", "estimated_value"} \subseteq DOMAIN pb.val)
          THEN InsResult("raise", e2, {o}, {}, <<sel, ins>>)
        ELSE IF e3.raised
          THEN InsResult("raise", e3, {o}, {}, <<sel, ins, sb>>)
        ELSE InsResult("id", e3, {o}, {BagParams(r, runNo, pb.val)},
                       <<sel, ins, sb>>)

\* ------------------------------------------------------------------- state
VARIABLES
    sheet,           \* the worksheet's data rows, row k of the list is sheet row k+1
    offers,          \* committed rows of table offers
    bags,            \* committed rows of table surprise_bags
    txOffers,        \* offers rows written by the open transaction
    txBags,          \* surprise_bags rows written by the open transaction
    conn,            \* the run's connection: "none", "open", "lost", "closed"
    tx,              \* its transaction status: "idle", "intrans", "inerror"
    pc,              \* position of the running call
    records,         \* sheet.get_all_records() of the running call
    i,               \* loop position in records
    rows_to_delete,  \* row numbers collected for deletion
    approved_count,
    deleted,         \* deletions the cleanup loop has done
    response,        \* the operator's answer to the prompt, None before it
    sync_rid,        \* restaurant_id argument of sync_offers_with_db
    run,             \* number of approve_offers runs started
    outcome,         \* how the last call ended
    log,             \* store calls of the running call, in order
    sheet0,          \* the sheet as it was when the running call started
    cache,           \* get_df's cached answers to the existence query
    prev,            \* the clean sync the running call follows, 0 if none
    sub,             \* the add_offer_to_sheet calls made and how the last one went
    peer,            \* a second deleting call running beside the first
    dbc              \* _connect's cached connection and the last _run call on it

vars == <<sheet, offers, bags, txOffers, txBags, conn, tx, pc, records, i,
          rows_to_delete, approved_count, deleted, response, sync_rid, run,
          outcome, log, sheet0, cache, prev, sub, peer, dbc>>

auxVars  == <<sub, peer, dbc>>
dbVars   == <<offers, bags, txOffers, txBags, conn, tx>>
loopVars == <<i, rows_to_delete, approved_count, deleted>>

\* ----------------------------------------------------------------- helpers
\* No add_offer_to_sheet call has been made.
SubInit == [calls |-> 0, pc |-> "idle", outs |-> <<>>, ret |-> "none", added |-> 0,
            row |-> <<>>, apps |-> {}]

\* No second deleting call is running.
PeerInit == [pc |-> "idle", records |-> <<>>, i |-> 1, rows |-> <<>>,
             picked |-> <<>>, deleted |-> 0, gone |-> <<>>]

\* No connection is cached and _run has not been called.
DbcInit == [conn |-> "none", tx |-> "idle", gen |-> 0, pc |-> "idle", log |-> <<>>,
            ret |-> "none", calls |-> 0]

RECURSIVE Reverse(_)
Reverse(s) == IF s = <<>> THEN <<>> ELSE Append(Reverse(Tail(s)), Head(s))

\* The worksheet after delete_rows(n): sheet row n is data row n-1; a row
\* below the last data row is blank and deleting it changes no data.
DeleteRow(sh, n) ==
    IF n - 1 > Len(sh) THEN sh
    ELSE [k \in 1..(Len(sh) - 1) |-> IF k < n - 1 THEN sh[k] ELSE sh[k + 1]]

\* The submission held by sheet row n, 0 for a blank row.
UidAt(sh, n) == IF n - 1 \in DOMAIN sh THEN sh[n - 1].uid ELSE 0

Pending(recs) == SelectSeq(recs, LAMBDA r : r.status = "pending")

\* str.lower on the answers an operator can type.
Responses == {"y", "Y", "n", "N", "", "yes", "YES"}
Lower(s) ==
    CASE s = "Y"   -> "y"
      [] s = "N"   -> "n"
      [] s = "YES" -> "yes"
      [] s = "Pending" -> "pending"
      [] OTHER     -> s

\* Sheets of at most MaxRows rows, each row a RowKinds content, uid = position.
RECURSIVE SheetsOfLen(_)
SheetsOfLen(n) ==
    IF n = 0 THEN {<<>>}
    ELSE {Append(sh, [r EXCEPT !.uid = n]) : sh \in SheetsOfLen(n - 1), r \in RowKinds}

InitSheets == UNION {SheetsOfLen(n) : n \in 0..MaxRows}

Init ==
    /\ sheet \in InitSheets
    /\ offers = {} /\ bags = {} /\ txOffers = {} /\ txBags = {}
    /\ conn = "none" /\ tx = "idle"
    /\ pc = "idle"
    /\ records = <<>> /\ i = 1
    /\ rows_to_delete = <<>> /\ approved_count = 0 /\ deleted = 0
    /\ response = None
    /\ sync_rid = 0
    /\ run = 0
    /\ outcome = "none"
    /\ log = <<>>
    /\ sheet0 = sheet
    /\ cache = {}
    /\ prev = 0
    /\ sub = SubInit /\ peer = PeerInit /\ dbc = DbcInit

Idle == pc \in {"idle", "done"}

\* Mutant: the rows are deleted in the order they were collected.
DeletionOrderAscending(rows) == rows

\* reversed(rows): the row numbers in deletion order.
DeletionOrder(rows) == Reverse(rows)

\* ------------------------------------------------------------ approve_offers
\* Mutant: the handler reports the error and the run goes on to the cleanup.
AbortAndGoOn(c, lg) ==
    /\ outcome' = "fatal"
    /\ pc' = "cleanup"
    /\ txOffers' = {} /\ txBags' = {}
    /\ tx' = "idle"
    /\ IF c = "none"
       THEN conn' = "none" /\ log' = lg
       ELSE /\ conn' = "closed"
            /\ log' = lg \o <<Ev("rollback", c = "open", 0), Ev("close", TRUE, 0)>>

\* Mutant: the connection is closed on the success path only.
AbortNoClose(c, lg) ==
    /\ outcome' = "fatal"
    /\ pc' = "done"
    /\ txOffers' = {} /\ txBags' = {}
    /\ tx' = "idle"
    /\ conn' = c
    /\ log' = IF c = "none" THEN lg ELSE Append(lg, Ev("rollback", c = "open", 0))

\* Mutant: the handler closes the connection without a rollback.
AbortNoRollback(c, lg) ==
    /\ outcome' = "fatal"
    /\ pc' = "done"
    /\ txOffers' = {} /\ txBags' = {}
    /\ tx' = "idle"
    /\ IF c = "none"
       THEN conn' = "none" /\ log' = lg
       ELSE conn' = "closed" /\ log' = Append(lg, Ev("close", TRUE, 0))

\* except Exception / finally of approve_offers, entered with the connection
\* in state c and the trace lg: rollback if conn is bound (it raises on a lost
\* connection), then close. Committed rows are not touched.
Abort(c, lg) ==
    /\ outcome' = "fatal"
    /\ pc' = "done"
    /\ txOffers' = {} /\ txBags' = {}
    /\ tx' = "idle"
    /\ IF c = "none"
       THEN conn' = "none" /\ log' = lg
       ELSE /\ conn' = "closed"
            /\ log' = lg \o <<Ev("rollback", c = "open", 0), Ev("close", TRUE, 0)>>

\* What the next call has before it: the restaurant of the call that just
\* ended if that was a sync_offers_with_db call that ran to its end with every
\* store call answered, 0 otherwise.
Summary ==
    IF /\ pc = "done" /\ sync_rid # 0 /\ outcome = "sync_ok"
       /\ \A n \in DOMAIN log : log[n].ok
    THEN sync_rid ELSE 0

\* Lines 128-138: open the sheet, read it, filter the pending rows.
ApproveOpen ==
    /\ Idle
    /\ run < MaxRuns
    /\ run' = run + 1
    /\ prev' = Summary
    /\ UNCHANGED <<cache, auxVars>>
    /\ sheet0' = sheet
    /\ i' = 1 /\ rows_to_delete' = <<>> /\ approved_count' = 0 /\ deleted' = 0
    /\ response' = None
    /\ sync_rid' = 0
    /\ UNCHANGED <<sheet, offers, bags>>
    /\ \E readOk \in BOOLEAN :
         IF ~readOk
         THEN /\ records' = <<>>
              /\ Abort("none", <<>>)
         ELSE /\ records' = sheet
              /\ conn' = "none" /\ tx' = "idle" /\ txOffers' = {} /\ txBags' = {}
              /\ log' = <<>>
              /\ IF Pending(sheet) = <<>>
                 THEN outcome' = "no_pending" /\ pc' = "done"
                 ELSE outcome' = "running" /\ pc' = "confirm"

\* Mutant: anything but "n" is taken for a yes.
ProceedsUnlessNo(answer) == Lower(answer) # "n"

\* Line 142: the answer lets the run proceed.
Proceeds(answer) == Lower(answer) = "y"

\* Lines 141-144: the confirmation prompt.
Confirm ==
    /\ pc = "confirm"
    /\ \E answer \in Responses :
         /\ response' = Some(answer)
         /\ IF ~Proceeds(answer)
            THEN outcome' = "cancelled" /\ pc' = "done"
            ELSE outcome' = outcome /\ pc' = "connect"
    /\ UNCHANGED <<sheet, dbVars, records, loopVars, sync_rid, run, log, sheet0,
                   cache, prev, auxVars>>

\* Lines 147-153: conn = _connect(), then conn.cursor(); either can raise.
Connect ==
    /\ pc = "connect"
    /\ \E got \in {"cursor", "no_conn", "no_cursor"} :
         CASE got = "cursor" ->
                /\ conn' = "open" /\ tx' = "idle"
                /\ log' = Append(log, Ev("connect", TRUE, 0))
                /\ pc' = "loop"
                /\ UNCHANGED <<outcome, txOffers, txBags>>
           [] got = "no_conn" -> Abort("none", log)
           [] got = "no_cursor" ->
                Abort("lost", Append(log, Ev("connect", TRUE, 0)))
    /\ UNCHANGED <<sheet, offers, bags, records, loopVars, response, sync_rid,
                   run, sheet0, cache, prev, auxVars>>

\* Mutant: a row is queued unless the call returned None.
RowQueuedUnlessNone(ret) == ret # "none"

\* Line 162: if offer_id.
RowQueued(ret) == ret = "id"

\* Lines 154-170: one iteration of the per-row loop.
ProcessRow ==
    /\ pc = "loop"
    /\ i <= Len(records)
    /\ i' = i + 1
    /\ IF records[i].status # "pending"
       THEN UNCHANGED <<conn, tx, txOffers, txBags, rows_to_delete,
                        approved_count, log>>
       ELSE \E f \in Faults \X Faults \X Faults :
              LET res == InsertOfferToDb(records[i], run, conn, tx, f)
              IN  /\ conn' = res.conn /\ tx' = res.tx
                  /\ txOffers' = txOffers \cup res.offers
                  /\ txBags' = txBags \cup res.bags
                  /\ log' = log \o res.evs \o <<Ev(res.ret, TRUE, records[i].uid)>>
                  /\ IF RowQueued(res.ret)
                     THEN /\ rows_to_delete' = Append(rows_to_delete, i + 1)
                          /\ approved_count' = approved_count + 1
                     ELSE UNCHANGED <<rows_to_delete, approved_count>>
    /\ UNCHANGED <<sheet, offers, bags, pc, records, deleted, response,
                   sync_rid, run, outcome, sheet0, cache, prev, auxVars>>

\* Mutant: the cleanup starts without a commit.
CommitSkipped ==
    /\ pc = "loop"
    /\ i > Len(records)
    /\ pc' = "cleanup"
    /\ UNCHANGED <<sheet, dbVars, records, loopVars, response, sync_rid, run,
                   outcome, log, sheet0, cache, prev, auxVars>>

\* Line 173: conn.commit() after the loop.
Commit ==
    /\ pc = "loop"
    /\ i > Len(records)
    /\ \E fault \in {"ok", "lost"} :
         IF conn # "open" \/ fault = "lost"
         THEN /\ Abort("lost", Append(log, Ev("commit", FALSE, 0)))
              /\ UNCHANGED <<offers, bags>>
         ELSE /\ offers' = IF tx = "inerror" THEN offers ELSE offers \cup txOffers
              /\ bags' = IF tx = "inerror" THEN bags ELSE bags \cup txBags
              /\ txOffers' = {} /\ txBags' = {}
              /\ tx' = "idle"
              /\ log' = Append(log, Ev("commit", TRUE, 0))
              /\ pc' = "cleanup"
              /\ UNCHANGED <<conn, outcome>>
    /\ UNCHANGED <<sheet, records, loopVars, response, sync_rid, run, sheet0,
                   cache, prev, auxVars>>

\* Lines 179-180: one sheet.delete_rows(row_num) of the cleanup loop.
Cleanup ==
    /\ pc = "cleanup"
    /\ deleted < Len(rows_to_delete)
    /\ \E ok \in BOOLEAN :
         LET row_num == DeletionOrder(rows_to_delete)[deleted + 1]
         IN  IF ok
             THEN /\ sheet' = DeleteRow(sheet, row_num)
                  /\ deleted' = deleted + 1
                  /\ log' = Append(log, Ev("delete", TRUE, UidAt(sheet, row_num)))
                  /\ UNCHANGED <<pc, outcome, conn, tx, txOffers, txBags>>
             ELSE /\ Abort(conn, Append(log, Ev("delete", FALSE, 0)))
                  /\ UNCHANGED <<sheet, deleted>>
    /\ UNCHANGED <<offers, bags, records, i, rows_to_delete, approved_count,
                   response, sync_rid, run, sheet0, cache, prev, auxVars>>

\* Lines 182-192: the report, then finally: conn.close().
Finish ==
    /\ pc = "cleanup"
    /\ deleted = Len(rows_to_delete)
    /\ outcome' = "ok"
    /\ pc' = "done"
    /\ conn' = "closed"
    /\ log' = Append(log, Ev("close", TRUE, 0))
    /\ UNCHANGED <<sheet, offers, bags, txOffers, txBags, tx, records, loopVars,
                   response, sync_rid, run, sheet0, cache, prev, auxVars>>

\* ------------------------------------------------------ sync_offers_with_db
Restaurants == {1, 2}

\* check_offer_exists_in_db: COUNT(*) > 0 over the committed offers joined
\* with offer_types on the type's display name.
CheckOfferExistsInDb(restaurant_id, offer_title, offer_type) ==
    \E o \in offers : /\ o.restaurant_id = restaurant_id
                      /\ o.title = offer_title
                      /\ o.offer_type = offer_type

\* The key get_df caches the existence query under: its parameters.
Key(restaurant_id, offer_title, offer_type) ==
    [rid |-> restaurant_id, title |-> offer_title, otype |-> offer_type]

\* The cached answers for a key (one at most).
Cached(key) == {e \in cache : e.key = key}

\* Lines 217-222: get the worksheet (None when the API fails) and read it
\* (an exception leaves the function).
SyncOpen ==
    /\ Idle
    /\ \E R \in Restaurants, wsOk \in BOOLEAN, readOk \in BOOLEAN :
         /\ sync_rid' = R
         /\ IF ~wsOk THEN /\ outcome' = "sync_skipped" /\ pc' = "done"
                          /\ records' = <<>>
                          /\ log' = <<Ev("ws", FALSE, 0)>>
            ELSE IF ~readOk THEN /\ outcome' = "sync_raised" /\ pc' = "done"
                                 /\ records' = <<>>
                                 /\ log' = <<Ev("read", FALSE, 0)>>
            ELSE /\ outcome' = "running" /\ pc' = "sync_scan"
                 /\ records' = sheet
                 /\ log' = <<>>
    /\ prev' = Summary
    /\ sheet0' = sheet
    /\ i' = 1 /\ rows_to_delete' = <<>> /\ approved_count' = 0 /\ deleted' = 0
    /\ response' = None
    /\ conn' = "none" /\ tx' = "idle" /\ txOffers' = {} /\ txBags' = {}
    /\ UNCHANGED <<sheet, offers, bags, run, cache, auxVars>>

\* Mutant: the restaurant of the row is not looked at.
SyncSelectsAnyRestaurant(r, R) == Lower(r.status) = "pending"

\* Lines 224-227: the row is a pending row of restaurant R.
SyncSelects(r, R) == r.restaurant_id = R /\ Lower(r.status) = "pending"

\* Lines 223-235: one iteration of the scan. The existence check goes through
\* get_df: a cached answer is returned without a query; a query that returns
\* is cached; a query that raises is not, and the row is skipped.
SyncCheck ==
    /\ pc = "sync_scan"
    /\ i <= Len(records)
    /\ i' = i + 1
    /\ LET r   == records[i]
           key == Key(sync_rid, r.title, r.offer_type)
           Answer(found) ==
               /\ log' = Append(log, Ev(IF found THEN "exists" ELSE "absent",
                                        TRUE, r.uid))
               /\ rows_to_delete' = IF found THEN Append(rows_to_delete, i + 1)
                                     ELSE rows_to_delete
       IN  IF ~SyncSelects(r, sync_rid)
           THEN UNCHANGED <<rows_to_delete, log, cache>>
           ELSE IF Cached(key) # {}
           THEN /\ \E e \in Cached(key) : Answer(e.val)
                /\ UNCHANGED <<cache, auxVars>>
           ELSE \E dbOk \in BOOLEAN :
                  IF dbOk
                  THEN LET found == CheckOfferExistsInDb(sync_rid, r.title,
                                                         r.offer_type)
                       IN  /\ Answer(found)
                           /\ cache' = cache \cup {[key |-> key, val |-> found]}
                  ELSE /\ log' = Append(log, Ev("check", FALSE, r.uid))
                       /\ UNCHANGED <<rows_to_delete, cache>>
    /\ UNCHANGED <<sheet, dbVars, pc, records, approved_count, deleted, response,
                   sync_rid, run, outcome, sheet0, prev, auxVars>>

\* get_df's ttl: a cached answer older than 120 seconds is dropped.
CacheExpire ==
    /\ \E e \in cache : cache' = cache \ {e}
    /\ UNCHANGED <<sheet, dbVars, pc, records, loopVars, response, sync_rid, run,
                   outcome, log, sheet0, prev, auxVars>>

\* Line 237: the scan is over, the deletions start from the highest row.
SyncScanEnd ==
    /\ pc = "sync_scan"
    /\ i > Len(records)
    /\ pc' = "sync_delete"
    /\ UNCHANGED <<sheet, dbVars, records, loopVars, response, sync_rid, run,
                   outcome, log, sheet0, cache, prev, auxVars>>

\* Line 238: one ws.delete_rows(idx); an exception leaves the function.
SyncDelete ==
    /\ pc = "sync_delete"
    /\ deleted < Len(rows_to_delete)
    /\ \E ok \in BOOLEAN :
         LET idx == DeletionOrder(rows_to_delete)[deleted + 1]
         IN  IF ok
             THEN /\ sheet' = DeleteRow(sheet, idx)
                  /\ deleted' = deleted + 1
                  /\ log' = Append(log, Ev("delete", TRUE, UidAt(sheet, idx)))
                  /\ UNCHANGED <<pc, outcome>>
             ELSE /\ outcome' = "sync_raised" /\ pc' = "done"
                  /\ log' = Append(log, Ev("delete", FALSE, 0))
                  /\ UNCHANGED <<sheet, deleted>>
    /\ UNCHANGED <<dbVars, records, i, rows_to_delete, approved_count, response,
                   sync_rid, run, sheet0, cache, prev, auxVars>>

\* Lines 239-240: the function returns.
SyncFinish ==
    /\ pc = "sync_delete"
    /\ deleted = Len(rows_to_delete)
    /\ outcome' = "sync_ok"
    /\ pc' = "done"
    /\ UNCHANGED <<sheet, dbVars, records, loopVars, response, sync_rid, run,
                   log, sheet0, cache, prev, auxVars>>

Next ==
    \/ ApproveOpen
    \/ Confirm
    \/ Connect
    \/ ProcessRow
    \/ Commit
    \/ Cleanup
    \/ Finish
    \/ SyncOpen
    \/ SyncCheck
    \/ SyncScanEnd
    \/ SyncDelete
    \/ SyncFinish
    \/ CacheExpire

Spec == Init /\ [][Next]_vars

\* approve_offers runs alone, one after the other.
NextApprove ==
    \/ ApproveOpen
    \/ Confirm
    \/ Connect
    \/ ProcessRow
    \/ Commit
    \/ Cleanup
    \/ Finish

SpecApprove == Init /\ [][NextApprove]_vars

\* ------------------------------------------------------ list_pending_offers
\* Rendering the summary of row r raises: its surprise_bag_data is non-empty
\* and does not parse, or holds no price (l.116-118).
RenderRaises(r) ==
    /\ r.surprise_bag_data # ""
    /\ \/ ~JsonLoadsBag(r.surprise_bag_data).ok
       \/ ~({"price", "estimated_value"}
               \subseteq DOMAIN JsonLoadsBag(r.surprise_bag_data).val)

ListOutcomes == {"listed", "list_none", "list_failed"}

\* How a list_pending_offers call that read the records recs ends.
ListOutcome(recs) ==
    IF Pending(recs) = <<>> THEN "list_none"
    ELSE IF \E n \in DOMAIN recs : recs[n].status = "pending" /\ RenderRaises(recs[n])
    THEN "list_failed"
    ELSE "listed"

\* Mutant: listing removes the first row it shows.
ListRemovesShown ==
    /\ Idle
    /\ sheet # <<>>
    /\ records' = sheet /\ log' = <<>>
    /\ outcome' = ListOutcome(sheet)
    /\ sheet' = DeleteRow(sheet, 2)
    /\ pc' = "done"
    /\ prev' = 0
    /\ sheet0' = sheet
    /\ i' = 1 /\ rows_to_delete' = <<>> /\ approved_count' = 0 /\ deleted' = 0
    /\ response' = None
    /\ sync_rid' = 0
    /\ conn' = "none" /\ tx' = "idle" /\ txOffers' = {} /\ txBags' = {}
    /\ UNCHANGED <<offers, bags, run, cache, auxVars>>

\* list_pending_offers (l.97-123): read the sheet, filter the pending rows,
\* print them; any exception is caught and reported.
ListPendingOffers ==
    /\ Idle
    /\ \E readOk \in BOOLEAN :
         IF readOk
         THEN /\ records' = sheet /\ log' = <<>>
              /\ outcome' = ListOutcome(sheet)
         ELSE /\ records' = <<>> /\ log' = <<Ev("read", FALSE, 0)>>
              /\ outcome' = "list_failed"
    /\ pc' = "done"
    /\ prev' = 0
    /\ sheet0' = sheet
    /\ i' = 1 /\ rows_to_delete' = <<>> /\ approved_count' = 0 /\ deleted' = 0
    /\ response' = None
    /\ sync_rid' = 0
    /\ conn' = "none" /\ tx' = "idle" /\ txOffers' = {} /\ txBags' = {}
    /\ UNCHANGED <<sheet, offers, bags, run, cache, auxVars>>

\* The administrator's script: list or approve, one choice after the other.
NextAdmin ==
    \/ ListPendingOffers
    \/ NextApprove

SpecAdmin == Init /\ [][NextAdmin]_vars

\* ------------------------------------------- submission: form to sheet row
\* What render_offer_form hands over: the widgets' values. valid_days are the
\* names selected, start_time and end_time default to 00:00 and 23:59,
\* end_date to None; bag is None unless the type is Surprise Bag.
Form(otype, title, days, st, en, ed, bag) ==
    [offer_type |-> otype, title |-> title, valid_days |-> days,
     start_time |-> st, end_time |-> en, end_date |-> ed, bag |-> bag]

Forms ==
    { Form("Percent Discount", "Lunch",  <<>>, "00:00:00", "23:59:00", None, None),
      Form("Percent Discount", "Dinner", <<"Mon", "Wed">>, "09:00:00", "17:00:00",
           Some("2025-12-31"), None),
      Form("Surprise Bag", "Evening Bag", <<>>, "00:00:00", "23:59:00", None,
           Some([price |-> 5, estimated_value |-> 12, daily_quantity |-> 20])) }

\* DAYS_MAPPING.
DaysMapping(day) ==
    CASE day = "Mon" -> 1 [] day = "Tue" -> 2 [] day = "Wed" -> 3
      [] day = "Thu" -> 4 [] day = "Fri" -> 5 [] day = "Sat" -> 6
      [] OTHER -> 0

\* process_offer_submission: None without a title; otherwise the processed
\* data, with None for no days selected and for the default times.
ProcessOfferSubmission(f) ==
    IF f.title = "" THEN None
    ELSE Some([offer_type |-> f.offer_type, title |-> f.title,
               valid_days_of_week |->
                   IF f.valid_days # <<>>
                   THEN Some([k \in DOMAIN f.valid_days |-> DaysMapping(f.valid_days[k])])
                   ELSE None,
               valid_start_time |->
                   IF f.start_time # "00:00:00" THEN Some(f.start_time) ELSE None,
               valid_end_time |->
                   IF f.end_time # "23:59:00" THEN Some(f.end_time) ELSE None,
               end_date |-> f.end_date,
               surprise_bag |->
                   IF f.offer_type = "Surprise Bag" THEN f.bag ELSE None])

\* str(x) for an optional text: str(None) is the text "None".
Str(x) == IF x = None THEN "None" ELSE x.v

\* json.dumps of a list of day numbers.
JsonDumpsDays(l) ==
    CASE l = <<>>     -> "[]"
      [] l = <<1, 3>> -> "[1, 3]"
      [] OTHER        -> "[...]"

\* json.dumps of the surprise bag dict.
JsonDumpsBag(d) == IF DOMAIN d = {} THEN "{}" ELSE BagDumped

\* The row add_offer_to_sheet builds (l.120-136) for restaurant rid from the
\* processed data p: json.dumps(days or []), str(time) or "", str(end_date
\* or ""), json.dumps(surprise_bag or {}), "pending".
SheetRow(rid, p, uid) ==
    [uid |-> uid, restaurant_id |-> rid, offer_type |-> p.offer_type,
     title |-> p.title, status |-> "pending",
     valid_days_of_week |->
         JsonDumpsDays(IF p.valid_days_of_week = None THEN <<>>
                       ELSE p.valid_days_of_week.v),
     valid_start_time |-> IF Str(p.valid_start_time) # ""
                          THEN Str(p.valid_start_time) ELSE "",
     valid_end_time |-> IF Str(p.valid_end_time) # ""
                        THEN Str(p.valid_end_time) ELSE "",
     end_date |-> IF p.end_date = None THEN "" ELSE p.end_date.v,
     surprise_bag_data |->
         JsonDumpsBag(IF p.surprise_bag = None THEN [k \in {} |-> 0]
                      ELSE p.surprise_bag.v)]

\* What one ws.append_row can do: return, raise before the store applied it,
\* or raise after the store applied it (the answer was lost).
AppendOutcomes == {"ok", "failed", "applied_failed"}

AppendedOnTop(sh, row, o) == IF o = "failed" THEN sh ELSE <<row>> \o sh

\* The sheet after one append_row attempt with outcome o: append_row adds
\* the row after the last row of the sheet.
Appended(sh, row, o) == IF o = "failed" THEN sh ELSE Append(sh, row)

\* The appends the store has applied so far: the row's uid, and whether the
\* append landed between two deletions of a running call.
Applied(apps, uid, o) ==
    IF o = "failed" THEN apps
    ELSE apps \cup {[uid |-> uid,
                     mid |-> /\ pc \in {"cleanup", "sync_delete"}
                             /\ 0 < deleted /\ deleted < Len(rows_to_delete)]}

\* add_offer_to_sheet up to the end of its first attempt (l.114-140):
\* no worksheet gives False; a first append that returns gives True.
SubmitFirst ==
    /\ sub.pc = "idle"
    /\ sub.calls < MaxSubs
    /\ \E f \in Forms, wsOk \in BOOLEAN, o \in AppendOutcomes :
         LET p   == ProcessOfferSubmission(f).v
             row == SheetRow(1, p, MaxRows + 2 * sub.calls + 1)
         IN  IF ~wsOk
             THEN /\ sub' = [calls |-> sub.calls + 1, pc |-> "idle", outs |-> <<>>,
                             ret |-> "false", added |-> 0, row |-> <<>>,
                             apps |-> sub.apps]
                  /\ UNCHANGED sheet
             ELSE /\ sheet' = Appended(sheet, row, o)
                  /\ sub' = [calls |-> sub.calls + 1,
                             pc |-> IF o = "ok" THEN "idle" ELSE "retry",
                             outs |-> <<o>>,
                             ret |-> IF o = "ok" THEN "true" ELSE "none",
                             added |-> IF o = "failed" THEN 0 ELSE 1,
                             row |-> IF o = "ok" THEN <<>> ELSE row,
                             apps |-> Applied(sub.apps, row.uid, o)]
    /\ UNCHANGED <<offers, bags, txOffers, txBags, conn, tx, pc, records, i,
                   rows_to_delete, approved_count, deleted, response, sync_rid,
                   run, outcome, log, sheet0, cache, prev, peer, dbc>>

\* The retry (l.141-150): the same row is appended again.
SubmitRetry ==
    /\ sub.pc = "retry"
    /\ \E o \in AppendOutcomes :
         /\ sheet' = Appended(sheet, [sub.row EXCEPT !.uid = sub.row.uid + 1], o)
         /\ sub' = [sub EXCEPT !.pc = "idle",
                               !.outs = Append(sub.outs, o),
                               !.ret = IF o = "ok" THEN "true" ELSE "false",
                               !.added = IF o = "failed" THEN sub.added
                                         ELSE sub.added + 1,
                               !.row = <<>>,
                               !.apps = Applied(sub.apps, sub.row.uid + 1, o)]
    /\ UNCHANGED <<offers, bags, txOffers, txBags, conn, tx, pc, records, i,
                   rows_to_delete, approved_count, deleted, response, sync_rid,
                   run, outcome, log, sheet0, cache, prev, peer, dbc>>

\* Submissions alone.
NextSubmit ==
    \/ SubmitFirst
    \/ SubmitRetry

SpecSubmit == Init /\ [][NextSubmit]_vars

\* A sheet that holds only what add_offer_to_sheet has written: it starts
\* with the header row alone, and approve_offers runs beside the submissions.
InitEmpty ==
    /\ sheet = <<>> /\ sheet0 = <<>>
    /\ offers = {} /\ bags = {} /\ txOffers = {} /\ txBags = {}
    /\ conn = "none" /\ tx = "idle" /\ pc = "idle"
    /\ records = <<>> /\ i = 1 /\ rows_to_delete = <<>>
    /\ approved_count = 0 /\ deleted = 0 /\ response = None /\ sync_rid = 0
    /\ run = 0 /\ outcome = "none" /\ log = <<>>
    /\ cache = {} /\ prev = 0
    /\ sub = SubInit /\ peer = PeerInit /\ dbc = DbcInit

NextSubmitApprove ==
    \/ NextSubmit
    \/ NextApprove

SpecSubmitApprove == InitEmpty /\ [][NextSubmitApprove]_vars

\* ----------------------------------------------------- _run (utils/db.py)
\* dbc is the connection _connect() has cached (st.cache_resource): conn is
\* "none" (nothing cached), "ok" or "broken" (the server side is gone; the
\* next use raises), tx its transaction status, gen counts the connections
\* created; pc, log, ret and calls follow the current _run call.
DbEv(op, g, res) == [op |-> op, gen |-> g, res |-> res]

\* What the store can do to one _execute_with: answer everything; lose the
\* connection at commit; reject the commit; reject the statement; raise an
\* OperationalError on a connection that stays alive (cancelled statement,
\* deadlock); lose the connection at its first use.
ExecOutcomes == {"ok", "commit_lost", "commit_rejected", "db_error", "op_error",
                 "conn_lost"}

\* _execute_with(conn_) (l.63-81) on the cached connection d under outcome
\* o: the new connection state and log, and how it ended: "returned", "conn"
\* (InterfaceError or OperationalError) or "db" (any other exception).
ExecuteWith(d, o) ==
    LET lost == d.conn = "broken" \/ o = "conn_lost"
        d0 == [d EXCEPT !.log = Append(@, DbEv("status", d.gen, d.tx))]
        d1 == IF d.tx = "inerror"
              THEN [d0 EXCEPT !.tx = IF lost THEN "unknown" ELSE "idle",
                              !.conn = IF lost THEN "broken" ELSE @,
                              !.log = Append(@, DbEv("rollback", d.gen,
                                          IF lost THEN "swallowed" ELSE "ok"))]
              ELSE d0
        exec(res) == Append(d1.log, DbEv("execute", d.gen, res))
    IN  CASE lost ->
               [d |-> [d1 EXCEPT !.conn = "broken", !.tx = "unknown",
                                 !.log = exec("conn")],
                res |-> "conn"]
          [] o = "ok" ->
               [d |-> [d1 EXCEPT !.tx = "idle",
                                 !.log = Append(exec("ok"), DbEv("commit", d.gen, "ok"))],
                res |-> "returned"]
          [] o = "commit_lost" ->
               [d |-> [d1 EXCEPT !.conn = "broken", !.tx = "unknown",
                                 !.log = Append(exec("ok"), DbEv("commit", d.gen, "conn"))],
                res |-> "conn"]
          [] o = "commit_rejected" ->
               [d |-> [d1 EXCEPT !.tx = "idle",
                                 !.log = Append(exec("ok"), DbEv("commit", d.gen, "db"))],
                res |-> "db"]
          [] o = "db_error" ->
               [d |-> [d1 EXCEPT !.tx = "inerror", !.log = exec("db")],
                res |-> "db"]
          [] OTHER ->
               [d |-> [d1 EXCEPT !.tx = "inerror", !.log = exec("conn")],
                res |-> "conn"]

NoHandlerRollback(d, lost) == d

\* The handlers' rollback (l.91-94, l.98-101): its own failure is swallowed.
HandlerRollback(d, lost) ==
    IF d.conn = "broken" \/ lost
    THEN [d EXCEPT !.conn = "broken", !.tx = "unknown",
                   !.log = Append(@, DbEv("rollback", d.gen, "swallowed"))]
    ELSE [d EXCEPT !.tx = "idle",
                   !.log = Append(@, DbEv("rollback", d.gen, "ok"))]

RetryableAny(res) == res # "returned"

\* except (InterfaceError, OperationalError) (l.85).
Retryable(res) == res = "conn"

\* conn = _connect() (l.61): the cached connection, or a new one when
\* nothing is cached; a failed connect raises out of _run.
RunOpen ==
    /\ dbc.pc = "idle"
    /\ dbc.calls < MaxCalls
    /\ IF dbc.conn # "none"
       THEN dbc' = [dbc EXCEPT !.pc = "first", !.log = <<>>, !.ret = "none",
                               !.calls = @ + 1]
       ELSE \E up \in BOOLEAN :
              dbc' = IF up
                     THEN [dbc EXCEPT !.conn = "ok", !.tx = "idle", !.gen = @ + 1,
                                      !.pc = "first", !.ret = "none",
                                      !.calls = @ + 1,
                                      !.log = <<DbEv("connect", dbc.gen + 1, "ok")>>]
                     ELSE [dbc EXCEPT !.pc = "idle", !.ret = "raised",
                                      !.calls = @ + 1,
                                      !.log = <<DbEv("connect", dbc.gen, "conn")>>]
    /\ UNCHANGED <<sheet, offers, bags, txOffers, txBags, conn, tx, pc, records, i,
                   rows_to_delete, approved_count, deleted, response, sync_rid,
                   run, outcome, log, sheet0, cache, prev, sub, peer>>

\* The first _execute_with(conn) and its handlers (l.83-85, l.96-102).
RunFirst ==
    /\ dbc.pc = "first"
    /\ \E o \in ExecOutcomes, lost \in BOOLEAN :
         LET r == ExecuteWith(dbc, o)
         IN  dbc' = CASE r.res = "returned" ->
                           [r.d EXCEPT !.pc = "idle", !.ret = "returned"]
                      [] Retryable(r.res) ->
                           [r.d EXCEPT !.pc = "newconn"]
                      [] OTHER ->
                           [HandlerRollback(r.d, lost) EXCEPT !.pc = "idle",
                                                              !.ret = "raised"]
    /\ UNCHANGED <<sheet, offers, bags, txOffers, txBags, conn, tx, pc, records, i,
                   rows_to_delete, approved_count, deleted, response, sync_rid,
                   run, outcome, log, sheet0, cache, prev, sub, peer>>

\* conn = _new_conn() (l.87, l.32-35): the cached connection is dropped and
\* a new one created and cached; a failed connect leaves nothing cached and
\* raises out of _run.
RunNewConn ==
    /\ dbc.pc = "newconn"
    /\ \E up \in BOOLEAN :
         dbc' = IF up
                THEN [dbc EXCEPT !.conn = "ok", !.tx = "idle", !.gen = @ + 1,
                                 !.pc = "second",
                                 !.log = Append(@, DbEv("new_conn", dbc.gen + 1, "ok"))]
                ELSE [dbc EXCEPT !.conn = "none", !.tx = "idle", !.pc = "idle",
                                 !.ret = "raised",
                                 !.log = Append(@, DbEv("new_conn", dbc.gen, "conn"))]
    /\ UNCHANGED <<sheet, offers, bags, txOffers, txBags, conn, tx, pc, records, i,
                   rows_to_delete, approved_count, deleted, response, sync_rid,
                   run, outcome, log, sheet0, cache, prev, sub, peer>>

\* The second _execute_with(conn) and its handler (l.88-95).
RunSecond ==
    /\ dbc.pc = "second"
    /\ \E o \in ExecOutcomes, lost \in BOOLEAN :
         LET r == ExecuteWith(dbc, o)
         IN  dbc' = IF r.res = "returned"
                    THEN [r.d EXCEPT !.pc = "idle", !.ret = "returned"]
                    ELSE [HandlerRollback(r.d, lost) EXCEPT !.pc = "idle",
                                                            !.ret = "raised"]
    /\ UNCHANGED <<sheet, offers, bags, txOffers, txBags, conn, tx, pc, records, i,
                   rows_to_delete, approved_count, deleted, response, sync_rid,
                   run, outcome, log, sheet0, cache, prev, sub, peer>>

\* Between two calls the server side of the cached connection goes away.
ConnectionLost ==
    /\ dbc.pc = "idle"
    /\ dbc.conn = "ok"
    /\ dbc' = [dbc EXCEPT !.conn = "broken", !.tx = "unknown"]
    /\ UNCHANGED <<sheet, offers, bags, txOffers, txBags, conn, tx, pc, records, i,
                   rows_to_delete, approved_count, deleted, response, sync_rid,
                   run, outcome, log, sheet0, cache, prev, sub, peer>>

\* The cached connection is one object shared by every session of the
\* process and by approve_offers (admin_offer_approval.py l.147), so the
\* first call can find it in any transaction status.
InitRun ==
    /\ sheet = <<>> /\ sheet0 = <<>>
    /\ offers = {} /\ bags = {} /\ txOffers = {} /\ txBags = {}
    /\ conn = "none" /\ tx = "idle" /\ pc = "idle"
    /\ records = <<>> /\ i = 1 /\ rows_to_delete = <<>>
    /\ approved_count = 0 /\ deleted = 0 /\ response = None /\ sync_rid = 0
    /\ run = 0 /\ outcome = "none" /\ log = <<>>
    /\ cache = {} /\ prev = 0
    /\ sub = SubInit /\ peer = PeerInit
    /\ \E c \in {"none", "ok", "broken"} :
         \E t \in (CASE c = "none"   -> {"idle"}
                     [] c = "broken" -> {"unknown"}
                     [] OTHER        -> {"idle", "intrans", "inerror"}) :
           dbc = [DbcInit EXCEPT !.conn = c, !.tx = t,
                                 !.gen = IF c = "none" THEN 0 ELSE 1]

NextRun ==
    \/ RunOpen
    \/ RunFirst
    \/ RunNewConn
    \/ RunSecond
    \/ ConnectionLost

SpecRun == InitRun /\ [][NextRun]_vars

\* ------------------------------------- a second call beside the running one
\* A sync_offers_with_db(1) call of another session that overlaps the running
\* call; both stores answer it. peer holds its locals: records, the scan
\* position i, the row numbers collected (rows) and the submissions of the
\* rows they were collected for (picked), the number of deletions done and
\* the submissions of the rows they removed (gone).
PeerRid == 1

\* Mutant: the rows are numbered from 1.
RowNumberFromOne(k) == k

\* enumerate(records, start=2): the sheet row number of record k.
RowNumber(k) == k + 1

primaryVars == <<offers, bags, txOffers, txBags, conn, tx, pc, records, i,
                 rows_to_delete, approved_count, deleted, response, sync_rid,
                 run, outcome, log, sheet0, prev, sub, dbc>>

\* Lines 217-221 for the second call.
PeerOpen ==
    /\ peer.pc = "idle"
    /\ peer' = [pc |-> IF sheet = <<>> THEN "delete" ELSE "scan",
                records |-> sheet, i |-> 1, rows |-> <<>>, picked |-> <<>>,
                deleted |-> 0, gone |-> <<>>]
    /\ UNCHANGED <<sheet, cache, primaryVars>>

\* Lines 223-235 for the second call: one iteration of its scan.
PeerCheck ==
    /\ peer.pc = "scan"
    /\ LET r     == peer.records[peer.i]
           key   == Key(PeerRid, r.title, r.offer_type)
           found == IF Cached(key) # {}
                    THEN \E e \in Cached(key) : e.val
                    ELSE CheckOfferExistsInDb(PeerRid, r.title, r.offer_type)
           sel   == SyncSelects(r, PeerRid)
       IN  /\ peer' = [peer EXCEPT
                          !.i = peer.i + 1,
                          !.rows = IF sel /\ found
                                   THEN Append(peer.rows, RowNumber(peer.i))
                                   ELSE peer.rows,
                          !.picked = IF sel /\ found
                                     THEN Append(peer.picked, r.uid)
                                     ELSE peer.picked,
                          !.pc = IF peer.i = Len(peer.records)
                                 THEN "delete" ELSE "scan"]
           /\ cache' = IF sel /\ Cached(key) = {}
                       THEN cache \cup {[key |-> key, val |-> found]}
                       ELSE cache
    /\ UNCHANGED <<sheet, primaryVars>>

\* Lines 237-238 for the second call: one ws.delete_rows(idx).
PeerDelete ==
    /\ peer.pc = "delete"
    /\ peer.deleted < Len(peer.rows)
    /\ LET idx == DeletionOrder(peer.rows)[peer.deleted + 1]
       IN  /\ sheet' = DeleteRow(sheet, idx)
           /\ peer' = [peer EXCEPT !.deleted = peer.deleted + 1,
                                   !.gone = Append(peer.gone, UidAt(sheet, idx))]
    /\ UNCHANGED <<cache, primaryVars>>

\* Lines 239-240 for the second call.
PeerFinish ==
    /\ peer.pc = "delete"
    /\ peer.deleted = Len(peer.rows)
    /\ peer' = [peer EXCEPT !.pc = "done"]
    /\ UNCHANGED <<sheet, cache, primaryVars>>

\* Rows for two overlapping deleters: a row that can be approved and a row
\* of unknown type, which no run approves.
RaceKinds ==
    { Row(1, "Percent Discount", "10% Off",   "pending", DaysOk, ""),
      Row(1, "NotARealType",     "Bad Offer", "pending", "",     "") }

RECURSIVE RaceSheetsOfLen(_)
RaceSheetsOfLen(n) ==
    IF n = 0 THEN {<<>>}
    ELSE {Append(sh, [r EXCEPT !.uid = n]) :
              sh \in RaceSheetsOfLen(n - 1), r \in RaceKinds}

InitRace ==
    /\ sheet \in UNION {RaceSheetsOfLen(n) : n \in 0..MaxRows}
    /\ offers = {} /\ bags = {} /\ txOffers = {} /\ txBags = {}
    /\ conn = "none" /\ tx = "idle"
    /\ pc = "idle"
    /\ records = <<>> /\ i = 1
    /\ rows_to_delete = <<>> /\ approved_count = 0 /\ deleted = 0
    /\ response = None
    /\ sync_rid = 0
    /\ run = 0
    /\ outcome = "none"
    /\ log = <<>>
    /\ sheet0 = sheet
    /\ cache = {}
    /\ prev = 0
    /\ sub = SubInit /\ peer = PeerInit /\ dbc = DbcInit

\* approve_offers runs with one sync_offers_with_db call beside them.
NextRace ==
    \/ NextApprove
    \/ PeerOpen
    \/ PeerCheck
    \/ PeerDelete
    \/ PeerFinish

SpecRace == InitRace /\ [][NextRace]_vars

\* Rows for the reconciliation: a pending row of restaurant 1, a pending row
\* of restaurant 2 with the same title and type, and a row of restaurant 1
\* that is not pending.
SyncKinds ==
    { Row(1, "Percent Discount", "10% Off", "pending",  DaysOk, ""),
      Row(2, "Percent Discount", "10% Off", "pending",  DaysOk, ""),
      Row(1, "Percent Discount", "10% Off", "approved", DaysOk, "") }

RECURSIVE SyncSheetsOfLen(_)
SyncSheetsOfLen(n) ==
    IF n = 0 THEN {<<>>}
    ELSE {Append(sh, [r EXCEPT !.uid = n]) :
              sh \in SyncSheetsOfLen(n - 1), r \in SyncKinds}

\* The Offer of restaurant 1 an earlier approval has left in the store.
StoredOffer == OfferParams(Row(1, "Percent Discount", "10% Off", "pending", DaysOk, ""), 0)

\* The store already holds restaurant 1's Offer; the sheet holds any rows.
InitSync ==
    /\ sheet \in UNION {SyncSheetsOfLen(n) : n \in 0..MaxRows}
    /\ offers = {StoredOffer} /\ bags = {} /\ txOffers = {} /\ txBags = {}
    /\ conn = "none" /\ tx = "idle"
    /\ pc = "idle"
    /\ records = <<>> /\ i = 1
    /\ rows_to_delete = <<>> /\ approved_count = 0 /\ deleted = 0
    /\ response = None
    /\ sync_rid = 0
    /\ run = 0
    /\ outcome = "none"
    /\ log = <<>>
    /\ sheet0 = sheet
    /\ cache = {}
    /\ prev = 0
    /\ sub = SubInit /\ peer = PeerInit /\ dbc = DbcInit

SpecSync == InitSync /\ [][Next]_vars

\* One approve_offers or sync_offers_with_db(1) call that has just read the
\* sheet, with submissions arriving beside it. The sheet holds MaxRows rows
\* of restaurant 1; the Offer of an earlier approval is in the store.
InitAppend ==
    /\ sheet \in RaceSheetsOfLen(MaxRows)
    /\ sheet0 = sheet /\ records = sheet
    /\ offers = {StoredOffer} /\ bags = {} /\ txOffers = {} /\ txBags = {}
    /\ conn = "none" /\ tx = "idle"
    /\ \/ pc = "confirm" /\ run = 1 /\ sync_rid = 0
       \/ pc = "sync_scan" /\ run = 0 /\ sync_rid = 1
    /\ i = 1 /\ rows_to_delete = <<>>
    /\ approved_count = 0 /\ deleted = 0 /\ response = None
    /\ outcome = "running" /\ log = <<>>
    /\ cache = {} /\ prev = 0
    /\ sub = SubInit /\ peer = PeerInit /\ dbc = DbcInit

\* The steps of the call after its read, and the submissions.
NextAppend ==
    \/ SubmitFirst
    \/ SubmitRetry
    \/ Confirm
    \/ Connect
    \/ ProcessRow
    \/ Commit
    \/ Cleanup
    \/ Finish
    \/ SyncCheck
    \/ SyncScanEnd
    \/ SyncDelete
    \/ SyncFinish

SpecAppend == InitAppend /\ [][NextAppend]_vars

\* ======================================================== properties
\* The last call started is an approve_offers run.
InApprove == run > 0 /\ sync_rid = 0

\* The trace of the running call holds the store call (op, ok) for row u.
Has(op, ok, u) == \E n \in DOMAIN log : log[n] = Ev(op, ok, u)
Count(op) == Cardinality({n \in DOMAIN log : log[n].op = op})

\* Rows of the sheet by the submission they come from.
Uids(sh) == {sh[n].uid : n \in DOMAIN sh}
AllUids == 1..MaxRows

\* The run's transaction has ended with a commit that returned.
Committed == InApprove /\ Has("commit", TRUE, 0)

\* C1: in every approve_offers run, a row is deleted from the sheet only if an
\* Offer created from that row is committed when it is deleted (offers are
\* never removed, so: every row the run has deleted has a committed Offer).
C1_DeletedRowHasCommittedOffer ==
    InApprove =>
        \A u \in AllUids :
            Has("delete", TRUE, u) => \E o \in offers : o.src = u

\* C2: over any sequence of approve_offers and sync_offers_with_db runs, each
\* pending row gives rise to at most one committed Offer.
C2_AtMostOneOfferPerRow ==
    \A u \in AllUids : Cardinality({o \in offers : o.src = u}) <= 1

\* C3: once the run's transaction has ended, a pending row with surprise-bag
\* data has its Offer committed by the run exactly when its SurpriseBag is.
C3_OfferAndBagTogether ==
    (InApprove /\ pc \in {"cleanup", "done"}) =>
        \A n \in DOMAIN records :
            (records[n].status = "pending" /\ records[n].surprise_bag_data # "") =>
                ((\E o \in offers : o.src = records[n].uid /\ o.run = run)
                 <=> (\E b \in bags : b.src = records[n].uid /\ b.run = run))

\* C4: when the run's commit has been issued, every row whose
\* insert_offer_to_db call returned an offer id has its Offer committed,
\* whatever happened to the other rows.
C4_ReturnedIdsAreCommitted ==
    Committed =>
        \A u \in AllUids :
            Has("id", TRUE, u) => \E o \in offers : o.src = u /\ o.run = run

\* insert_offer_to_db has been called for row u and has returned or raised.
Processed(u) == Has("id", TRUE, u) \/ Has("none", TRUE, u) \/ Has("raise", TRUE, u)

\* The per-row loop is over: conn.commit() has been called.
LoopOver == InApprove /\ Count("commit") > 0

\* Every pending row that was read has been given to insert_offer_to_db.
AllProcessed ==
    \A n \in DOMAIN records :
        records[n].status = "pending" => Processed(records[n].uid)

\* Row number n of the sheet as read is not in the deletion list.
NotQueued(n) == \A m \in DOMAIN rows_to_delete : rows_to_delete[m] # n + 1

\* The pending rows read by the run whose offer_type names no OfferType.
UnknownTypeRows ==
    {n \in DOMAIN records : /\ records[n].status = "pending"
                            /\ records[n].offer_type \notin OfferTypes}

\* What C5 says of an unknown-type row apart from how the call ends: no INSERT
\* is executed for it, it is not queued for deletion nor counted, it stays in
\* the sheet, and the loop goes on to the end.
C5_RowSkipped(n) ==
    LET u == records[n].uid
    IN  /\ ~Has("insert_offer", TRUE, u) /\ ~Has("insert_offer", FALSE, u)
        /\ ~Has("insert_bag", TRUE, u) /\ ~Has("insert_bag", FALSE, u)
        /\ NotQueued(n)
        /\ approved_count = Cardinality({v \in AllUids : Has("id", TRUE, v)})
        /\ u \in Uids(sheet)
        /\ LoopOver => AllProcessed

\* C5: for a pending row whose offer_type matches no OfferType row (the lookup
\* SELECT was answered and gave no row), insert_offer_to_db executes no INSERT
\* and returns None; the row stays in the sheet, is not counted as approved,
\* and the loop goes on. (A lookup that itself raises is the case of C6; no
\* INSERT is executed for the row then either.)
C5_UnknownTypeSkipped ==
    InApprove =>
        \A n \in UnknownTypeRows :
            Processed(records[n].uid) =>
                /\ Has("select", TRUE, records[n].uid) =>
                       (Has("none", TRUE, records[n].uid)
                        /\ ~Has("raise", TRUE, records[n].uid))
                /\ C5_RowSkipped(n)

\* An unknown-type row got None and stayed, and a later row was approved and
\* deleted in the same run.
C5_Witness ==
    /\ InApprove /\ pc = "done" /\ outcome = "ok"
    /\ \E n \in UnknownTypeRows :
         /\ Has("none", TRUE, records[n].uid)
         /\ records[n].uid \in Uids(sheet)
         /\ \E v \in AllUids : v > records[n].uid /\ Has("delete", TRUE, v)

\* C6: a row whose processing raised inside the per-row loop is not in the
\* deletion list and is still in the sheet (to the end of the run), and the
\* loop goes on to the remaining rows.
C6_RaisingRowIsKept ==
    InApprove =>
        /\ \A n \in DOMAIN records :
              Has("raise", TRUE, records[n].uid) =>
                  /\ NotQueued(n)
                  /\ records[n].uid \in Uids(sheet)
                  /\ ~Has("delete", TRUE, records[n].uid)
        /\ LoopOver => AllProcessed

\* A row raised, a later row was approved and deleted, and the run ended.
C6_Witness ==
    /\ InApprove /\ pc = "done" /\ outcome = "ok"
    /\ \E u, v \in AllUids :
         /\ u < v
         /\ Has("raise", TRUE, u) /\ u \in Uids(sheet)
         /\ Has("delete", TRUE, v)

\* C7: when the run fails before its commit returned (the sheet or the
\* connection cannot be opened, or an exception escapes the loop and its
\* commit), nothing the run inserted persists, the transaction is rolled back
\* if a connection was opened, and no sheet deletion is attempted.
C7_FatalBeforeCommit ==
    (InApprove /\ outcome = "fatal" /\ ~Has("commit", TRUE, 0)) =>
        /\ \A o \in offers : o.run # run
        /\ \A b \in bags : b.run # run
        /\ txOffers = {} /\ txBags = {}
        /\ Count("delete") = 0
        /\ sheet = sheet0
        /\ Count("rollback") = Count("connect")

\* The commit raised after a row had been inserted and queued.
C7_Witness ==
    /\ InApprove /\ pc = "done" /\ outcome = "fatal"
    /\ Has("commit", FALSE, 0)
    /\ \E u \in AllUids : Has("insert_offer", TRUE, u) /\ Has("id", TRUE, u)

\* C8: an approve_offers run aborted because a store became unreachable, at
\* any step, leaves the sheet with exactly the rows it held at the start.
C8_AbortLeavesSheetUnchanged ==
    (InApprove /\ outcome = "fatal") => sheet = sheet0

\* C9: unless the operator answered 'y' or 'Y', the run opens no connection,
\* executes no statement or commit and deletes no row; any other answer ends
\* the run with both stores unchanged.
C9_NothingWithoutYes ==
    InApprove =>
        /\ response \notin {Some("y"), Some("Y")} =>
              /\ log = <<>> /\ conn = "none"
              /\ txOffers = {} /\ txBags = {}
              /\ sheet = sheet0
              /\ \A o \in offers : o.run # run
              /\ \A b \in bags : b.run # run
        /\ (response # None /\ response \notin {Some("y"), Some("Y")}) =>
              pc = "done" /\ outcome = "cancelled"

\* The operator answered "yes" to a run that had pending rows: it was cancelled.
C9_Witness ==
    /\ InApprove /\ pc = "done" /\ outcome = "cancelled"
    /\ response = Some("yes")
    /\ Pending(sheet) # <<>>

\* C10: a run that opened a connection closes it exactly once, as its last
\* store call, on every path; a run that opened none closes nothing.
C10_ClosedExactlyOnce ==
    InApprove =>
        /\ Count("close") <= Count("connect")
        /\ Count("connect") <= 1
        /\ pc = "done" =>
              /\ Count("close") = Count("connect")
              /\ Count("connect") = 1 =>
                    conn = "closed" /\ log[Len(log)] = Ev("close", TRUE, 0)
              /\ Count("connect") = 0 => conn = "none"

\* A run with a row-level failure ended on the fatal path after opening a
\* connection.
C10_Witness ==
    /\ InApprove /\ pc = "done" /\ outcome = "fatal"
    /\ Has("connect", TRUE, 0) /\ Has("close", TRUE, 0)
    /\ \E u \in AllUids : Has("raise", TRUE, u)

\* C11 as stated: a run that opened a connection has, when it ends, issued
\* one commit or one rollback, never both and never neither.
C11_CommitXorRollback ==
    (InApprove /\ pc = "done" /\ Count("connect") = 1) =>
        Count("commit") + Count("rollback") = 1

\* C11 amended: a run that opened a connection issues at most one commit and
\* at most one rollback, and at least one of the two by the time it ends; it
\* issues both only when the commit raised or a sheet deletion failed after
\* the commit, the rollback then comes after the commit and, the commit
\* having returned, leaves what the run committed in place.
C11_EndsTransactionOnce ==
    InApprove =>
        /\ Count("commit") <= 1 /\ Count("rollback") <= 1
        /\ Count("connect") = 0 => Count("commit") + Count("rollback") = 0
        /\ (pc = "done" /\ Count("connect") = 1) =>
              Count("commit") + Count("rollback") >= 1
        /\ (Count("commit") = 1 /\ Count("rollback") = 1) =>
              /\ Has("commit", FALSE, 0) \/ Has("delete", FALSE, 0)
              /\ \A n, m \in DOMAIN log :
                    (log[n].op = "commit" /\ log[m].op = "rollback") => n < m
              /\ Has("commit", TRUE, 0) =>
                    \A u \in AllUids :
                        (Has("id", TRUE, u) /\ ~(\E v \in AllUids : Has("raise", TRUE, v)))
                            => \E o \in offers : o.src = u /\ o.run = run

\* A sheet deletion failed after the commit had returned and stored an Offer:
\* the run issued its commit and then a rollback.
C11_Witness ==
    /\ InApprove /\ pc = "done" /\ outcome = "fatal"
    /\ Has("commit", TRUE, 0) /\ Has("delete", FALSE, 0)
    /\ Has("rollback", TRUE, 0)
    /\ \E o \in offers : o.run = run

\* Position in the records read of the row of submission u (0 if not read).
RecIndex(u) ==
    IF \E n \in DOMAIN records : records[n].uid = u
    THEN CHOOSE n \in DOMAIN records : records[n].uid = u
    ELSE 0

InsertOps == {"select", "insert_offer", "insert_bag"}
ResultOps == {"id", "none", "raise"}

\* C12: in a confirmed run the pending rows are processed in their sheet
\* order (each once), every statement of insert_offer_to_db precedes the
\* run's single commit, every sheet deletion follows a commit that returned,
\* and a run whose commit did not return deletes no row.
C12_OrderOfStoreCalls ==
    InApprove =>
        /\ \A n, m \in DOMAIN log :
              (n < m /\ log[n].op \in ResultOps /\ log[m].op \in ResultOps) =>
                  /\ RecIndex(log[n].src) > 0
                  /\ RecIndex(log[n].src) < RecIndex(log[m].src)
        /\ \A n \in DOMAIN log :
              log[n].op \in ResultOps \cup InsertOps =>
                  /\ RecIndex(log[n].src) > 0
                  /\ records[RecIndex(log[n].src)].status = "pending"
                  /\ RecIndex(log[n].src) < i
        /\ Count("commit") <= 1
        /\ \A n, m \in DOMAIN log :
              (log[n].op \in InsertOps /\ log[m].op = "commit") => n < m
        /\ \A n \in DOMAIN log :
              log[n].op = "delete" =>
                  \E m \in 1..(n - 1) : log[m] = Ev("commit", TRUE, 0)
        /\ ~Has("commit", TRUE, 0) => sheet = sheet0

\* Two rows were inserted in sheet order, the commit returned, and both rows
\* were deleted after it.
C12_Witness ==
    /\ InApprove /\ pc = "done" /\ outcome = "ok"
    /\ \E n, m, k \in DOMAIN log :
         /\ n < m /\ m < k
         /\ log[n].op = "insert_offer" /\ log[n].ok
         /\ log[m].op = "insert_offer" /\ log[m].ok
         /\ log[k] = Ev("commit", TRUE, 0)
    /\ Count("delete") = 2

\* The records read without the rows whose sheet row number is in S, the
\* others in their order.
Without(recs, S) ==
    LET F[k \in 0..Len(recs)] ==
            IF k = 0 THEN <<>>
            ELSE IF (k + 1) \in S THEN F[k - 1]
            ELSE Append(F[k - 1], recs[k])
    IN  F[Len(recs)]

\* The row numbers the running call has deleted so far.
DeletedRows == {DeletionOrder(rows_to_delete)[k] : k \in 1..deleted}

\* C13: the rows selected for deletion by approve_offers or by
\* sync_offers_with_db are deleted in strictly descending row number, and
\* after each deletion, and at the end of the call, the sheet is the sheet
\* that was read without exactly the rows deleted, the others in their order.
C13_DescendingDeletion ==
    /\ pc \in {"cleanup", "sync_delete"} =>
          /\ \A n, m \in DOMAIN rows_to_delete :
                n < m => DeletionOrder(rows_to_delete)[n]
                             > DeletionOrder(rows_to_delete)[m]
          /\ \A n \in DOMAIN rows_to_delete :
                (rows_to_delete[n] - 1) \in DOMAIN records
          /\ sheet = Without(records, DeletedRows)
    /\ (pc = "done" /\ Count("delete") > 0) =>
          sheet = Without(records, DeletedRows)
    /\ (pc = "done" /\ outcome \in {"ok", "sync_ok"}) =>
          /\ deleted = Len(rows_to_delete)
          /\ sheet = Without(records, {rows_to_delete[n] : n \in DOMAIN rows_to_delete})

\* A sync_offers_with_db call that followed an approve_offers run selected
\* two rows and deleted both.
C13_Witness ==
    /\ pc = "done" /\ outcome = "sync_ok" /\ run > 0
    /\ Len(rows_to_delete) = 2 /\ deleted = 2
    /\ Len(sheet) = Len(records) - 2

\* Rows the run reported as failed: one "Failed to approve" or "Error
\* processing offer" line each (the run prints no failed count).
FailedRows == {u \in AllUids : Has("none", TRUE, u) \/ Has("raise", TRUE, u)}

\* Rows the run approved: their Offer was committed by the run and their
\* sheet row was deleted.
ApprovedRows ==
    {u \in AllUids : /\ Has("delete", TRUE, u)
                     /\ \E o \in offers : o.src = u /\ o.run = run}

\* C14: when a confirmed run reaches its report, the approved count is the
\* number of rows whose Offer was created and whose row was removed, the
\* failed rows are the pending rows that were skipped (still in the sheet),
\* and the two numbers sum to the number of pending rows read.
C14_ReportCounts ==
    (InApprove /\ pc = "done" /\ outcome = "ok") =>
        /\ approved_count = Cardinality(ApprovedRows)
        /\ FailedRows = {records[n].uid : n \in {k \in DOMAIN records :
                              /\ records[k].status = "pending"
                              /\ records[k].uid \in Uids(sheet)}}
        /\ approved_count + Cardinality(FailedRows) = Len(Pending(records))

\* The last call started is sync_offers_with_db.
InSync == pc # "idle" /\ sync_rid # 0

\* Every store call of the running call so far was answered.
StoresAvailable == \A n \in DOMAIN log : log[n].ok

\* C15: a sync_offers_with_db call that directly follows a call for the same
\* restaurant which ran to its end with both stores available (nothing was
\* committed or submitted in between) selects and deletes no row, the stores
\* being available to it as well.
C15_SecondSyncDeletesNothing ==
    (InSync /\ prev = sync_rid /\ StoresAvailable) =>
        rows_to_delete = <<>> /\ Count("delete") = 0

\* Row n of the records read is one sync_offers_with_db(R) may delete: it is
\* a pending row of restaurant R, its existence check returned true, and an
\* Offer with its restaurant, title and type is committed.
C16_MayDelete(n) ==
    /\ records[n].restaurant_id = sync_rid
    /\ Lower(records[n].status) = "pending"
    /\ Has("exists", TRUE, records[n].uid)
    /\ \E o \in offers : /\ o.restaurant_id = records[n].restaurant_id
                         /\ o.title = records[n].title
                         /\ o.offer_type = records[n].offer_type

\* C16: sync_offers_with_db(R) selects and deletes only pending rows of
\* restaurant R whose existence check returned true; rows of other
\* restaurants, rows that are not pending and rows whose check returned false
\* or raised are in the sheet throughout the call and after it.
C16_DeletesOnlyMatchedRows ==
    InSync =>
        /\ \A m \in DOMAIN rows_to_delete :
              /\ (rows_to_delete[m] - 1) \in DOMAIN records
              /\ C16_MayDelete(rows_to_delete[m] - 1)
        /\ \A n \in DOMAIN records :
              \/ C16_MayDelete(n)
              \/ /\ records[n].uid \in Uids(sheet)
                 /\ ~Has("delete", TRUE, records[n].uid)
        /\ \A n \in DOMAIN records :
              (Has("absent", TRUE, records[n].uid)
               \/ Has("check", FALSE, records[n].uid)) =>
                  /\ ~Has("exists", TRUE, records[n].uid)
                  /\ records[n].uid \in Uids(sheet)

\* sync_offers_with_db(1) deleted a matched row of restaurant 1 and left a
\* pending row of restaurant 2 with the same title and type.
C16_Witness ==
    /\ InSync /\ pc = "done" /\ outcome = "sync_ok" /\ sync_rid = 1
    /\ Count("delete") = 1
    /\ \E n \in DOMAIN sheet :
         /\ sheet[n].restaurant_id = 2 /\ sheet[n].status = "pending"
         /\ CheckOfferExistsInDb(1, sheet[n].title, sheet[n].offer_type)

\* C17: a sync_offers_with_db call during which a store did not answer (the
\* worksheet could not be had, the read, an existence check or a deletion
\* failed) returns without raising and leaves the sheet as it was before
\* the call.
C17_UnavailableStoreLeavesSheet ==
    (InSync /\ pc = "done" /\ ~StoresAvailable) =>
        /\ outcome # "sync_raised"
        /\ sheet = sheet0

\* C18: when sync_offers_with_db(R) has ended with both stores available, no
\* pending row of restaurant R whose (restaurant_id, title, offer_type)
\* matches a committed Offer is left in the sheet.
C18_NoMatchedRowLeft ==
    (InSync /\ pc = "done" /\ outcome = "sync_ok" /\ StoresAvailable) =>
        \A n \in DOMAIN sheet :
            SyncSelects(sheet[n], sync_rid) =>
                ~CheckOfferExistsInDb(sync_rid, sheet[n].title, sheet[n].offer_type)

\* What the code inserts for a text cell: null for the empty string, the
\* text otherwise.
C19_Inserted(cell) == IF cell = "" THEN None ELSE Some(cell)

\* C19: every Offer the run has inserted has valid_start_time,
\* valid_end_time and end_date null where the row's cell is the empty
\* string (and the cell's text otherwise), valid_days_of_week null where the
\* cell is empty, and otherwise the list of integers the cell's JSON text
\* encodes ("[1,3]" gives <<1, 3>>).
C19_EmptyFieldsAreNull ==
    InApprove =>
        \A o \in offers \cup txOffers :
            o.run = run =>
                /\ RecIndex(o.src) > 0
                /\ LET r == records[RecIndex(o.src)]
                   IN  /\ o.valid_start_time = C19_Inserted(r.valid_start_time)
                       /\ o.valid_end_time = C19_Inserted(r.valid_end_time)
                       /\ o.end_date = C19_Inserted(r.end_date)
                       /\ o.valid_start_time # Some("")
                       /\ o.valid_end_time # Some("")
                       /\ o.end_date # Some("")
                       /\ r.valid_days_of_week = "" =>
                              o.valid_days_of_week = None
                       /\ r.valid_days_of_week = "[1,3]" =>
                              o.valid_days_of_week = Some(<<1, 3>>)
                       /\ r.valid_days_of_week = "[]" =>
                              o.valid_days_of_week = Some(<<>>)
                       /\ r.valid_days_of_week \in {"", "[1,3]", "[]"}

\* The run committed an Offer from a row with empty days and times and one
\* from a row with days "[1,3]".
C19_Witness ==
    /\ InApprove /\ pc = "done" /\ outcome = "ok"
    /\ \E o, q \in offers :
         /\ o.run = run /\ q.run = run
         /\ o.valid_days_of_week = None /\ o.valid_start_time = None
         /\ o.end_date = None
         /\ q.valid_days_of_week = Some(<<1, 3>>) /\ q.valid_end_time = None

\* The row has a JSON cell that does not parse.
Malformed(r) ==
    \/ r.valid_days_of_week # "" /\ ~JsonLoadsDays(r.valid_days_of_week).ok
    \/ r.surprise_bag_data # "" /\ ~JsonLoadsBag(r.surprise_bag_data).ok

\* C20: when a run has ended normally with every store call answered, a
\* pending row with a malformed valid_days_of_week or surprise_bag_data has
\* raised, no Offer and no SurpriseBag of the run comes from it, it is still
\* in the sheet, and every other row that returned an id has its Offer
\* committed and its sheet row deleted.
C20_MalformedRowFailsAlone ==
    (InApprove /\ pc = "done" /\ outcome = "ok" /\ StoresAvailable) =>
        \A n \in DOMAIN records :
            (records[n].status = "pending" /\ Malformed(records[n])
             /\ records[n].offer_type \in OfferTypes) =>
                /\ Has("raise", TRUE, records[n].uid)
                /\ \A o \in offers : ~(o.src = records[n].uid /\ o.run = run)
                /\ \A b \in bags : ~(b.src = records[n].uid /\ b.run = run)
                /\ records[n].uid \in Uids(sheet)
                /\ \A u \in AllUids :
                      Has("id", TRUE, u) =>
                          /\ \E o \in offers : o.src = u /\ o.run = run
                          /\ Has("delete", TRUE, u)

\* Number of entries (op, ok) for row u in the trace.
CountFor(op, ok, u) == Cardinality({n \in DOMAIN log : log[n] = Ev(op, ok, u)})

\* The surprise_bag_data of the row parses to data with the two required keys.
BagDataComplete(r) ==
    /\ r.surprise_bag_data # ""
    /\ JsonLoadsBag(r.surprise_bag_data).ok
    /\ {"price", "estimated_value"} \subseteq DOMAIN JsonLoadsBag(r.surprise_bag_data).val

C22_ListChangesNothing ==
    [][(pc' = "done" /\ outcome' \in ListOutcomes) =>
           /\ sheet' = sheet
           /\ offers' = offers /\ bags' = bags
           /\ txOffers' = {} /\ txBags' = {}
           /\ conn' = "none"
           /\ \A n \in DOMAIN log' : log'[n].op = "read"]_vars

\* A listing showed the pending rows of a sheet after an approve_offers run
\* had committed an Offer.
C22_Witness ==
    /\ pc = "done" /\ outcome = "listed"
    /\ Pending(sheet) # <<>>
    /\ offers # {}

\* The submissions of the rows the running call has removed, in order.
PrimaryGone ==
    LET dels == SelectSeq(log, LAMBDA e : e.op = "delete" /\ e.ok)
    IN  [k \in DOMAIN dels |-> dels[k].src]

\* The submission of record number n - 1 of the records recs, 0 if none.
SelectedUid(recs, n) == IF n - 1 \in DOMAIN recs THEN recs[n - 1].uid ELSE 0

\* The running approve_offers run has removed a row other than the row it
\* selected under that row number.
PrimaryWrong ==
    \E k \in DOMAIN PrimaryGone :
        PrimaryGone[k] # SelectedUid(records, DeletionOrder(rows_to_delete)[k])

\* The second call has removed a row other than the row it selected.
PeerWrong ==
    \E k \in DOMAIN peer.gone : peer.gone[k] # Reverse(peer.picked)[k]

\* Set of the entries of a sequence.
Range(sq) == {sq[k] : k \in DOMAIN sq}

\* C23: a deleter removes a row other than the row it selected only when
\* the other deleter has removed, since the first one read the sheet, a row
\* the first one had read; and such an interleaving exists (C23_Witness).
C23_WrongRowOnlyUnderOverlap ==
    /\ (InApprove /\ PrimaryWrong) =>
          \E u \in Uids(records) :
              u \notin Uids(sheet) /\ u \notin Range(PrimaryGone)
    /\ PeerWrong =>
          \E u \in Uids(peer.records) :
              u \notin Uids(sheet) /\ u \notin Range(peer.gone)

\* The approve_offers run and the sync call had both selected the approved
\* row; the run deleted it first, and the sync call then removed, under the
\* same row number, a pending row that has no matching Offer.
C23_Witness ==
    /\ InApprove
    /\ \E k \in DOMAIN peer.gone :
         /\ peer.gone[k] # Reverse(peer.picked)[k]
         /\ \E n \in DOMAIN peer.records :
              /\ peer.records[n].uid = peer.gone[k]
              /\ peer.records[n].status = "pending"
              /\ ~CheckOfferExistsInDb(peer.records[n].restaurant_id,
                                       peer.records[n].title,
                                       peer.records[n].offer_type)
              /\ peer.gone[k] \notin Uids(sheet)

\* C24: an add_offer_to_sheet call makes at most two append attempts, the
\* second only after the first raised; it returns True exactly when an
\* attempt returned; a call that returned True has added exactly one row and
\* a call that returned False none, also when an attempt raised after the
\* store had applied it.
C24_OneRowIffTrue ==
    /\ Len(sub.outs) <= 2
    /\ Len(sub.outs) = 2 => sub.outs[1] # "ok"
    /\ (sub.calls > 0 /\ sub.pc = "idle") =>
          /\ sub.ret = "true" <=> (\E k \in DOMAIN sub.outs : sub.outs[k] = "ok")
          /\ sub.ret = "true" => sub.added = 1
          /\ sub.ret = "false" => sub.added = 0

RunEnded == dbc.pc = "idle" /\ dbc.ret # "none"

\* The executions of the query in the current _run call.
Execs == {k \in DOMAIN dbc.log : dbc.log[k].op = "execute"}

\* The events at which an exception left _execute_with.
Raises(kinds) ==
    {k \in DOMAIN dbc.log : /\ dbc.log[k].op \in {"execute", "commit"}
                            /\ dbc.log[k].res \in kinds}

InSecond(k) == \E c \in 1..(k - 1) : dbc.log[c].op = "new_conn"

\* C25: _run executes the query at most twice per call; a second execution
\* happens only after the first attempt raised InterfaceError or
\* OperationalError, on a newly created connection that has replaced the
\* cached one; any other exception from the first attempt and any exception
\* from the second is raised to the caller with no further execution.
C25_AtMostOneRetry ==
    /\ Cardinality(Execs) <= 2
    /\ \A k1, k2 \in Execs :
          k1 < k2 =>
            /\ \E e \in Raises({"conn"}), c \in DOMAIN dbc.log :
                  /\ k1 <= e /\ e < c /\ c < k2
                  /\ dbc.log[c] = DbEv("new_conn", dbc.log[k2].gen, "ok")
            /\ dbc.log[k2].gen # dbc.log[k1].gen
            /\ dbc.log[k2].gen = dbc.gen
    /\ \A e \in Raises({"conn", "db"}) :
          (dbc.log[e].res = "db" \/ InSecond(e)) =>
            /\ dbc.pc = "idle" /\ dbc.ret = "raised"
            /\ \A k \in Execs : k <= e

\* A call that failed with a connection error, retried on a new connection
\* and returned.
C25_Witness ==
    /\ RunEnded /\ dbc.ret = "returned"
    /\ Cardinality(Execs) = 2

\* The cached connection has no open and no aborted transaction once _run
\* has returned or raised.
CachedConnectionClean == RunEnded => dbc.tx \notin {"intrans", "inerror"}

\* A commit follows every successful execute.
CommitFollowsExecute ==
    \A k \in Execs :
        dbc.log[k].res = "ok" =>
            /\ k + 1 \in DOMAIN dbc.log
            /\ dbc.log[k + 1].op = "commit"
            /\ dbc.log[k + 1].gen = dbc.log[k].gen

\* A connection found aborted is rolled back before the query is executed.
AbortedIsRolledBackFirst ==
    \A k \in DOMAIN dbc.log :
        dbc.log[k] = DbEv("status", dbc.log[k].gen, "inerror") =>
            /\ k + 2 \in DOMAIN dbc.log
            /\ dbc.log[k + 1].op = "rollback"
            /\ dbc.log[k + 1].gen = dbc.log[k].gen
            /\ dbc.log[k + 2].op = "execute"

RollbackFollows(k) ==
    /\ k + 1 \in DOMAIN dbc.log
    /\ dbc.log[k + 1].op = "rollback"
    /\ dbc.log[k + 1].gen = dbc.log[k].gen

SubmittedPlain ==
    {n \in DOMAIN records :
        /\ records[n].uid > MaxRows
        /\ Lower(records[n].status) = "pending"
        /\ records[n].offer_type # "Surprise Bag"
        /\ GetOfferTypeId(records[n].offer_type) # None}

\* C27: when a run has ended normally with every store call answered, a row
\* that add_offer_to_sheet wrote for an offer that is not a Surprise Bag and
\* has a known type has exactly one Offer of the run, no SurpriseBag insert
\* was attempted for it, it returned an id (was counted as approved) and it
\* is no longer in the sheet.
C27_PlainSubmissionApproved ==
    (InApprove /\ pc = "done" /\ outcome = "ok" /\ StoresAvailable) =>
        \A n \in SubmittedPlain :
            LET u == records[n].uid
            IN  /\ Cardinality({o \in offers : o.src = u /\ o.run = run}) = 1
                /\ CountFor("insert_bag", TRUE, u) = 0
                /\ Has("id", TRUE, u)
                /\ u \notin Uids(sheet)

\* The titles of the forms submitted with no days selected and the default
\* daily start and end time.
UnscheduledTitles ==
    {f.title : f \in {g \in Forms : /\ g.valid_days = <<>>
                                     /\ ProcessOfferSubmission(g).v.valid_start_time = None
                                     /\ ProcessOfferSubmission(g).v.valid_end_time = None}}

\* C28: every Offer INSERT executed for a row that add_offer_to_sheet wrote
\* for a submission with no daily start time, no daily end time and no valid
\* days has null for valid_start_time, valid_end_time and valid_days_of_week.
C28_UnscheduledInsertsNull ==
    \A o \in offers \cup txOffers :
        (o.src > MaxRows /\ o.title \in UnscheduledTitles) =>
            /\ o.valid_start_time = None
            /\ o.valid_end_time = None
            /\ o.valid_days_of_week = None

\* C29: a row appended by add_offer_to_sheet while an approve_offers or
\* sync_offers_with_db call is running (the call has read the sheet) never
\* makes the call delete a row other than the rows it selected, and the
\* appended row is in the sheet with status pending during the call and at
\* its end.
C29_AppendIsHarmless ==
    /\ ~PrimaryWrong
    /\ \A a \in sub.apps :
          \E k \in DOMAIN sheet :
              sheet[k].uid = a.uid /\ sheet[k].status = "pending"

\* A call has ended after deleting every row it selected, at least two,
\* and an append landed between two of its deletions.
C29_Witness ==
    /\ pc = "done" /\ outcome \in {"ok", "sync_ok"}
    /\ deleted >= 2 /\ deleted = Len(rows_to_delete)
    /\ \E a \in sub.apps : a.mid

\* C30: every row a sync_offers_with_db call has removed is a row from which
\* a committed Offer was created; a pending row whose (restaurant_id, title,
\* offer_type) an Offer of another row already bears stays in the sheet.
C30_SyncRemovesOnlyApprovedRows ==
    InSync =>
        \A n \in DOMAIN log :
            (log[n].op = "delete" /\ log[n].ok) =>
                \E o \in offers : o.src = log[n].src

====
